---- MODULE Spec2Model ----
(***************************************************************************)
(* Verification model of the BearWave-Paper2 chart scripts.                 *)
(*                                                                         *)
(* Part 1: the night-shading loops of core/Combined.py (optional_plot) and  *)
(*         generators/fig10_5mhz_generator.py (main).                       *)
(* Part 2: the NOAA-style solar utilities (julian_day ... sunrise_sunset_   *)
(*         local), in integer fixed-point arithmetic.                       *)
(* Part 3: compute_sun_table of core/Combined.py.                           *)
(* Part 4: the signal-to-foF2 estimators of the analysis and chart scripts. *)
(* Part 5: update_paths_in_file of update_paths.py.                         *)
(* Part 6: julian_day and jd_to_utc_datetime over the whole calendar.       *)
(*                                                                         *)
(* Time in part 1 is counted in whole hours since 00:00 of day 0; a        *)
(* calendar date is its day number.                                        *)
(***************************************************************************)
EXTENDS Integers, Sequences, FiniteSets, TLC

VARIABLES
    script,        \* which script runs: "Combined" or "fig10"
    dates_sorted,  \* dates_sorted: the sorted keys of sun_map
    sun_map,       \* date -> <<sunrise, sunset>>, None when not known
    start_dt,      \* left edge of the plot window
    end_dt,        \* right edge of the plot window
    i,             \* position of the shading loop (1-based index into dates_sorted)
    spans,         \* the ax.axvspan calls made so far, in call order
    pc,            \* position inside a call of sunrise_sunset_local
    c_d,             \* its argument d: [year, month, day]
    c_lat_deg,       \* its argument lat_deg, in millidegrees
    c_lon_deg,       \* its argument lon_deg, in millidegrees, east positive
    c_tz,            \* its argument tz: whole hours east of UTC
    c_jd,            \* local jd
    c_H,             \* local H, in millidegrees
    c_Jtransit,      \* local Jtransit
    c_Jrise,         \* local Jrise
    c_Jset,          \* local Jset
    c_sr,            \* returned sunrise, local wall clock
    c_ss,            \* returned sunset, local wall clock
    t_dates,       \* compute_sun_table: its argument dates, a column of timestamps
    t_keys,        \* the sorted distinct dates the loop runs over
    t_recs,        \* local recs: the rows built so far
    t_pc,          \* position inside a call of compute_sun_table
    f_station,     \* foF2 estimators: argument station
    f_period,      \* argument period
    f_signal,      \* one signal value, in whole dB
    f_fn,          \* the estimator that was called
    f_out,         \* the value it returned for the signal, in 1/120 MHz
    u_content,     \* update_paths_in_file: the text of the file
    u_readable,    \* whether the file can be opened and decoded
    u_changes,     \* the returned changes_made
    u_pc,          \* position of a call of update_paths_in_file
    k_d,           \* calendar conversion: a calendar date
    k_off,         \* a time of day, in millionths of a day
    k_jd,          \* the Julian Day of that time on that date
    k_dt,          \* what jd_to_utc_datetime returns for it
    k_pc,          \* position of the conversion
    m_days,        \* sun map built per date: unique_days, in order of appearance
    m_raised,      \* the dates for which sunrise_sunset_local raised
    q_file,        \* filter_to_best_quality_period: filename, as path components
    q_columns,     \* the column names of df
    q_rows,        \* the DateTime of each row of df
    q_out,         \* the DateTime of each row of the returned frame
    q_pc,          \* position of the call of filter_to_best_quality_period
    e_merged       \* enrich_file: the merged table

shadeVars == <<script, dates_sorted, sun_map, start_dt, end_dt, i, spans>>

sunVars == <<pc, c_d, c_lat_deg, c_lon_deg, c_tz, c_jd, c_H, c_Jtransit, c_Jrise, c_Jset, c_sr, c_ss>>

tableVars == <<t_dates, t_keys, t_recs, t_pc>>

fofVars == <<f_station, f_period, f_signal, f_fn, f_out>>

pathVars == <<u_content, u_readable, u_changes, u_pc>>

calVars == <<k_d, k_off, k_jd, k_dt, k_pc>>

mapVars == <<m_days, m_raised>>

filterVars == <<q_file, q_columns, q_rows, q_out, q_pc>>

enrichVars == <<e_merged>>

moreVars == <<mapVars, filterVars, enrichVars>>

toolVars == <<tableVars, fofVars, pathVars, calVars, moreVars>>

vars == <<shadeVars, sunVars, toolVars>>

(***************************************************************************)
(* Bounds and constants                                                    *)
(***************************************************************************)
MaxDay == 4            \* calendar dates are the days 1..MaxDay

HoursPerDay == 24      \* pd.Timedelta(days=1), in hours

MarginHours == 1       \* timedelta(hours=1) around the data

None == -1             \* Python None (no sunrise / sunset for the date)

Days == 1..MaxDay

DataHours == {1, 7, 17, 22}    \* hours of day at which data rows may lie

SunriseHours == {6}            \* local sunrise hour of a date

SunsetHours == {18}            \* local sunset hour of a date

Max(a, b) == IF a >= b THEN a ELSE b

Min(a, b) == IF a <= b THEN a ELSE b

\* pd.Timestamp(date): 00:00 of the date
Midnight(d) == d * HoursPerDay

\* sorted(...) of a set of dates
RECURSIVE SortedSeq(_)
SortedSeq(S) ==
    IF S = {} THEN << >>
    ELSE LET m == CHOOSE x \in S : \A y \in S : x <= y
         IN  <<m>> \o SortedSeq(S \ {m})

\* The (sunrise, sunset) pairs a date can carry: computed values lie on the
\* date itself, sunrise before sunset; a failed computation leaves (None, None).
SunPairs(d) ==
    {<<None, None>>} \cup
    {<<Midnight(d) + r, Midnight(d) + s>> : r \in SunriseHours, s \in SunsetHours}

(***************************************************************************)
(* The shading loops                                                       *)
(***************************************************************************)
\* Mutant of Emit: an interval with left = right is shaded too.
EmitNonStrict(left, right, k) ==
    IF left <= right THEN << [left |-> left, right |-> right, idx |-> k] >> ELSE << >>

\* if pd.notna(left) and pd.notna(right) and left < right: ax.axvspan(left, right)
\* idx records the loop iteration that made the call.
Emit(left, right, k) ==
    IF left < right THEN << [left |-> left, right |-> right, idx |-> k] >> ELSE << >>

\* Mutant of ConsecutiveShade: the right end is not clamped to the window.
ConsecutiveShadeUnclamped(ss, sr_next, k) ==
    Emit(Max(ss, start_dt), sr_next, k)

\* Combined.py 378-382: consecutive days, one block sunset -> next sunrise
ConsecutiveShade(ss, sr_next, k) ==
    Emit(Max(ss, start_dt), Min(sr_next, end_dt), k)

\* Mutant of GapShade: one block from sunset to the next sunrise, as for
\* consecutive days.
GapShadeBridged(ss, sr_next, current_date, next_date, k) ==
    Emit(Max(ss, start_dt), Min(sr_next, end_dt), k)

\* Mutant of GapShade: the morning of the next date is shaded before the
\* evening of the current one.
GapShadeMorningFirst(ss, sr_next, current_date, next_date, k) ==
    LET midnight      == Midnight(current_date) + HoursPerDay
        next_midnight == Midnight(next_date)
    IN  (IF \E n \in 1..Len(dates_sorted) : dates_sorted[n] = next_date
         THEN Emit(Max(next_midnight, start_dt), Min(sr_next, end_dt), k)
         ELSE << >>)
        \o Emit(Max(ss, start_dt), Min(midnight, end_dt), k)

\* Combined.py 383-398: days apart, evening of the current date and morning of the next
GapShade(ss, sr_next, current_date, next_date, k) ==
    LET midnight      == Midnight(current_date) + HoursPerDay
        next_midnight == Midnight(next_date)
    IN  Emit(Max(ss, start_dt), Min(midnight, end_dt), k)
        \o (IF \E n \in 1..Len(dates_sorted) : dates_sorted[n] = next_date
            THEN Emit(Max(next_midnight, start_dt), Min(sr_next, end_dt), k)
            ELSE << >>)

\* Mutant of SingleDayShade: the stretch after sunset is forgotten.
SingleDayShadeMorningOnly(sr, ss, k) ==
    IF sr # None THEN Emit(start_dt, Min(sr, end_dt), k) ELSE << >>

\* Combined.py 400-414: a single date, shade before sunrise and after sunset
SingleDayShade(sr, ss, k) ==
    (IF sr # None THEN Emit(start_dt, Min(sr, end_dt), k) ELSE << >>)
    \o (IF ss # None THEN Emit(Max(ss, start_dt), end_dt, k) ELSE << >>)

\* Mutant of OptionalPlotIter: the single-day shading is done for every date,
\* whatever the number of dates.
OptionalPlotIterAlwaysSingle(k) ==
    LET d       == dates_sorted[k]
        sr      == sun_map[d][1]
        ss      == sun_map[d][2]
        sr_next == IF k + 1 <= Len(dates_sorted) THEN sun_map[dates_sorted[k + 1]][1] ELSE None
        night   == IF ss # None /\ sr_next # None
                   THEN LET next_date == dates_sorted[k + 1]
                            day_gap   == next_date - d
                        IN  IF day_gap <= 1
                            THEN ConsecutiveShade(ss, sr_next, k)
                            ELSE GapShade(ss, sr_next, d, next_date, k)
                   ELSE << >>
    IN  night \o SingleDayShade(sr, ss, k)

\* Combined.py 366-414: the body of the loop for index k
OptionalPlotIter(k) ==
    LET d       == dates_sorted[k]
        sr      == sun_map[d][1]
        ss      == sun_map[d][2]
        sr_next == IF k + 1 <= Len(dates_sorted) THEN sun_map[dates_sorted[k + 1]][1] ELSE None
        night   == IF ss # None /\ sr_next # None
                   THEN LET next_date == dates_sorted[k + 1]
                            day_gap   == next_date - d
                        IN  IF day_gap <= 1
                            THEN ConsecutiveShade(ss, sr_next, k)
                            ELSE GapShade(ss, sr_next, d, next_date, k)
                   ELSE << >>
        single  == IF Len(dates_sorted) = 1 THEN SingleDayShade(sr, ss, k) ELSE << >>
    IN  night \o single

\* fig10_5mhz_generator.py 169-176: the body of the loop for index k
Fig10Iter(k) ==
    LET d       == dates_sorted[k]
        ss      == sun_map[d][2]
        sr_next == IF k + 1 <= Len(dates_sorted) THEN sun_map[dates_sorted[k + 1]][1] ELSE None
    IN  IF ss # None /\ sr_next # None
        THEN Emit(Max(ss, start_dt), Min(sr_next, end_dt), k)
        ELSE << >>

(***************************************************************************)
(* Part 2: the solar utilities (Combined.py 66-135, repeated verbatim in   *)
(* fig10_5mhz_generator.py 26-96).                                         *)
(*                                                                         *)
(* Floating point is modelled in fixed point:                              *)
(*   - an angle is a whole number of millidegrees (deg2rad / rad2deg only  *)
(*     change the unit and are folded into SinDeg, CosDeg, AsinDeg,        *)
(*     AcosDeg);                                                           *)
(*   - a sine or cosine is a whole number of 1/10000;                      *)
(*   - a Julian Day is a record [day, frac]: day + frac / 1000000 days;    *)
(*   - a date-time is a record [ord, sec]: the proleptic Gregorian ordinal *)
(*     of its date (0001-01-01 is 1) and the second of that day.           *)
(* Against the float code the sunrise and sunset of this model differ by   *)
(* at most some ten seconds for latitudes within 60 degrees.               *)
(***************************************************************************)

\* math.sin on whole degrees 0..90, in 1/10000
SinTab ==
    <<     0,   175,   349,   523,   698,   872,  1045,  1219,  1392,  1564,
        1736,  1908,  2079,  2250,  2419,  2588,  2756,  2924,  3090,  3256,
        3420,  3584,  3746,  3907,  4067,  4226,  4384,  4540,  4695,  4848,
        5000,  5150,  5299,  5446,  5592,  5736,  5878,  6018,  6157,  6293,
        6428,  6561,  6691,  6820,  6947,  7071,  7193,  7314,  7431,  7547,
        7660,  7771,  7880,  7986,  8090,  8192,  8290,  8387,  8480,  8572,
        8660,  8746,  8829,  8910,  8988,  9063,  9135,  9205,  9272,  9336,
        9397,  9455,  9511,  9563,  9613,  9659,  9703,  9744,  9781,  9816,
        9848,  9877,  9903,  9925,  9945,  9962,  9976,  9986,  9994,  9998,
       10000 >>

\* sin of a first-quadrant angle 0..90000, linear between whole degrees
SinQ(a) ==
    LET k == a \div 1000
        r == a % 1000
    IN  IF k = 90 THEN SinTab[91]
        ELSE SinTab[k + 1] + ((SinTab[k + 2] - SinTab[k + 1]) * r + 500) \div 1000

\* sin(deg2rad(a))
SinDeg(a) ==
    LET x == a % 360000
    IN  IF x <= 90000 THEN SinQ(x)
        ELSE IF x <= 180000 THEN SinQ(180000 - x)
        ELSE IF x <= 270000 THEN -SinQ(x - 180000)
        ELSE -SinQ(360000 - x)

\* cos(deg2rad(a))
CosDeg(a) == SinDeg(a + 90000)

\* asin of 0..10000, inverse of SinQ
AsinQ(v) ==
    IF v = 10000 THEN 90000
    ELSE LET k == CHOOSE j \in 0..89 : SinTab[j + 1] <= v /\ v < SinTab[j + 2]
         IN  k * 1000 + ((v - SinTab[k + 1]) * 1000) \div (SinTab[k + 2] - SinTab[k + 1])

\* rad2deg(asin(v)); like math.asin it is defined on [-1, 1] only
AsinDeg(v) == IF v >= 0 THEN AsinQ(v) ELSE -AsinQ(-v)

\* rad2deg(acos(v)); like math.acos it is defined on [-1, 1] only
AcosDeg(v) == 90000 - AsinDeg(v)

\* int(a / b) for b > 0: Python's int() truncates towards zero
TruncDiv(a, b) == IF a >= 0 THEN a \div b ELSE -((-a) \div b)

\* round(q + r/m) for 0 <= r < m: Python rounds halves to the even neighbour
RoundHalfEven(q, r, m) ==
    IF 2 * r < m THEN q
    ELSE IF 2 * r > m THEN q + 1
    ELSE IF q % 2 = 0 THEN q ELSE q + 1

\* a Julian Day moved by f millionths of a day
JdAdd(jd, f) ==
    LET t == jd.frac + f
    IN  [day |-> jd.day + t \div 1000000, frac |-> t % 1000000]

\* julian_day(d): the result always ends in .5
julian_day(d) ==
    LET y == IF d.month <= 2 THEN d.year - 1 ELSE d.year
        m == IF d.month <= 2 THEN d.month + 12 ELSE d.month
        A == y \div 100
        B == 2 - A + A \div 4
    IN  [day  |-> (1461 * (y + 4716)) \div 4 + (306001 * (m + 1)) \div 10000
                  + d.day + B - 1525,
         frac |-> 500000]

\* jd_to_jcent(jd): (jd - 2451545.0) / 36525.0, kept as the days since J2000.0
\* (n whole days and f millionths) so that jc * 35999.05029 can be evaluated
\* as days * 0.98560028 without losing the day
jd_to_jcent(jd) == [n |-> jd.day - 2451545, f |-> jd.frac]

\* Julian centuries in 1/10000, for the slow polynomial terms
Jc4(jc) == (jc.n * 10000 + jc.f \div 100) \div 36525

\* (whole + frac5 / 100000) millidegrees per day, over the days of jc
DegRate(jc, whole, frac5) ==
    jc.n * whole + (jc.n * frac5) \div 100000 + ((jc.f \div 1000) * whole) \div 1000

\* solar_coords(jc): mean anomaly M, ecliptic longitude lam, declination delta
\* and obliquity eps, in millidegrees (alpha is not used by any caller)
solar_coords(jc) ==
    LET jc4 == Jc4(jc)
        sq  == (jc4 * jc4) \div 10000
        M   == (357529 + DegRate(jc, 985, 60028) - (sq * 1537) \div 100000000) % 360000
        L0  == (280466 + DegRate(jc, 985, 64736) + (sq * 3032) \div 100000000) % 360000
        c1  == 1914602 - (jc4 * 4817) \div 10000
        c2  == 19993 - (jc4 * 101) \div 10000
        c3  == 289
        C   == ((c1 \div 100) * SinDeg(M) + (c2 \div 100) * SinDeg(2 * M)
                + (c3 \div 100) * SinDeg(3 * M)) \div 100000
        lam == (L0 + C) % 360000
        eps == 23439 - (jc4 * 13) \div 10000
    IN  [M |-> M, lam |-> lam, eps |-> eps,
         delta |-> AsinDeg((SinDeg(eps) * SinDeg(lam) + 5000) \div 10000)]

\* Mutant of RawCosH: the product of the sines is added instead of subtracted.
RawCosHSineAdded(lat, dec, altitude) ==
    LET num == SinDeg(altitude) + (SinDeg(lat) * SinDeg(dec)) \div 10000
        den == (CosDeg(lat) * CosDeg(dec)) \div 10000
    IN  IF den = 0
        THEN (IF num > 0 THEN 100000000 ELSE IF num < 0 THEN -100000000 ELSE 0)
        ELSE (num * 10000) \div den

\* the quotient (sin(alt) - sin(lat) sin(dec)) / (cos(lat) cos(dec)) of
\* hour_angle, in 1/10000, before it is clamped.  math.cos(pi/2) is a tiny
\* positive float, so at the poles the quotient is huge with the sign of the
\* numerator instead of a division by zero.
RawCosH(lat, dec, altitude) ==
    LET num == SinDeg(altitude) - (SinDeg(lat) * SinDeg(dec)) \div 10000
        den == (CosDeg(lat) * CosDeg(dec)) \div 10000
    IN  IF den = 0
        THEN (IF num > 0 THEN 100000000 ELSE IF num < 0 THEN -100000000 ELSE 0)
        ELSE (num * 10000) \div den

\* Mutant of Clamp: min and max exchanged.
ClampSwapped(c) == Max(10000, Min(-10000, c))

\* min(1.0, max(-1.0, cosH))
Clamp(c) == Min(10000, Max(-10000, c))

\* hour_angle(lat_rad, dec, altitude): in millidegrees, 0..180000
hour_angle(lat, dec, altitude) == AcosDeg(Clamp(RawCosH(lat, dec, altitude)))

\* lw / (2 pi) in millionths of a day, for lw = deg2rad(-lon_deg)
LwFrac(lon) == -((lon * 25) \div 9)

\* solar_transit_jd(jd, lw), lw given by the longitude lon (east positive)
solar_transit_jd(jd, lon) ==
    LET x     == JdAdd([day |-> jd.day - 2451545, frac |-> jd.frac], -900 - LwFrac(lon))
        n     == RoundHalfEven(x.day, x.frac, 1000000)
        jf    == 900 + LwFrac(lon)
        M_    == (357529 + n * 985 + (n * 60028) \div 100000
                  + ((jf \div 1000) * 986) \div 1000) % 360000
        lam_  == (280160 + (1915 * SinDeg(M_)) \div 10000 + (20 * SinDeg(2 * M_)) \div 10000
                  + (3 * SinDeg(3 * M_)) \div 100000) % 360000
    IN  JdAdd([day |-> 2451545 + n, frac |-> 0],
              jf + (5300 * SinDeg(M_)) \div 10000 - (6900 * SinDeg(2 * lam_)) \div 10000)

IsLeap(y) == (y % 4 = 0 /\ y % 100 # 0) \/ y % 400 = 0

DaysBeforeMonth == << 0, 31, 59, 90, 120, 151, 181, 212, 243, 273, 304, 334 >>

\* datetime(year, month, day): the proleptic Gregorian ordinal of the date
Ordinal(year, month, day) ==
    LET y == year - 1
    IN  365 * y + y \div 4 - y \div 100 + y \div 400
        + DaysBeforeMonth[month] + (IF month > 2 /\ IsLeap(year) THEN 1 ELSE 0) + day

\* a date-time moved by s seconds (datetime + timedelta)
DtAdd(dt, s) ==
    LET t == dt.sec + s
    IN  [ord |-> dt.ord + t \div 86400, sec |-> t % 86400]

DtLess(a, b) == a.ord < b.ord \/ (a.ord = b.ord /\ a.sec < b.sec)

\* jd_to_utc_datetime(jd), lines 105-121: the calendar fields by the Meeus
\* algorithm and the seconds of the day, round(frac * 86400)
jd_fields(jd) ==
    LET J       == JdAdd(jd, 500000)
        Z       == J.day
        F       == J.frac
        alpha   == TruncDiv(4 * Z - 7468865, 146097)
        A       == IF Z < 2299161 THEN Z ELSE Z + 1 + alpha - TruncDiv(alpha, 4)
        B       == A + 1524
        C       == TruncDiv(20 * B - 2442, 7305)
        D       == TruncDiv(1461 * C, 4)
        E       == TruncDiv(10000 * (B - D), 306001)
        day_int == B - D - TruncDiv(306001 * E, 10000)
        month   == IF E < 14 THEN E - 1 ELSE E - 13
        year    == IF month > 2 THEN C - 4716 ELSE C - 4715
        seconds == RoundHalfEven((F * 864) \div 10000, (F * 864) % 10000, 10000)
    IN  [year |-> year, month |-> month, day_int |-> day_int, seconds |-> seconds]

\* jd_to_utc_datetime(jd):
\* datetime(year, month, day_int) + timedelta(seconds = round(frac * 86400))
jd_to_utc_datetime(jd) ==
    LET f == jd_fields(jd)
    IN  DtAdd([ord |-> Ordinal(f.year, f.month, f.day_int), sec |-> 0], f.seconds)

\* .astimezone(tz).replace(tzinfo=None) for a zone tz hours east of UTC
ToLocal(dt, tz) == DtAdd(dt, tz * 3600)

\* Mutant of RiseJd: the hour angle is added instead of subtracted.
RiseJdAdded(Jtransit, H) == JdAdd(Jtransit, (H * 25) \div 9)

\* Jrise = Jtransit - rad2deg(H)/360.0
RiseJd(Jtransit, H) == JdAdd(Jtransit, -((H * 25) \div 9))

\* Mutant of SetJd: half the hour angle is added.
SetJdHalved(Jtransit, H) == JdAdd(Jtransit, (H * 25) \div 18)

\* Jset = Jtransit + rad2deg(H)/360.0
SetJd(Jtransit, H) == JdAdd(Jtransit, (H * 25) \div 9)

\* sunrise_sunset_local(d, lat_deg, lon_deg, tz) as one expression
sunrise_sunset_local(date, lat, lon, zone) ==
    LET jd0 == julian_day(date)
        dec == solar_coords(jd_to_jcent(jd0)).delta
        H0  == hour_angle(lat, dec, -833)
        Jt  == solar_transit_jd(jd0, lon)
    IN  << ToLocal(jd_to_utc_datetime(RiseJd(Jt, H0)), zone),
           ToLocal(jd_to_utc_datetime(SetJd(Jt, H0)), zone) >>

(***************************************************************************)
(* A call of sunrise_sunset_local, statement by statement                  *)
(***************************************************************************)
NumYears == 2          \* the dates tried lie in the years 2023 .. 2023 + NumYears - 1

SunDates ==
    {[year |-> y, month |-> m, day |-> dd] :
        y \in 2023..(2023 + NumYears - 1), m \in 1..12, dd \in {1, 21}}

LatSamples ==
    {-90000, -80000, -66000, -59000, -45000, -23000, 0, 1, 1000,
     5414, 23000, 45000, 59000, 66000, 80000, 90000}

LonSamples ==
    {-180000, -135000, -90000, -45000, -1000, 0,
     1000, 45000, 90000, 118039, 135000, 180000}

TzSamples == {-12, 0, 8, 14}

\* the fixed-offset zone of a longitude: longitude / 15 rounded to whole hours
TzOfLon(lon) == (lon + 7500) \div 15000

NoJd == [day |-> 0, frac |-> 0]

NoDt == [ord |-> 0, sec |-> 0]

\* no call of sunrise_sunset_local is under way
SunIdle ==
    /\ pc = "idle"
    /\ c_d = [year |-> 0, month |-> 0, day |-> 0]
    /\ c_lat_deg = 0 /\ c_lon_deg = 0 /\ c_tz = 0
    /\ c_jd = NoJd /\ c_H = 0 /\ c_Jtransit = NoJd /\ c_Jrise = NoJd /\ c_Jset = NoJd
    /\ c_sr = NoDt /\ c_ss = NoDt

\* no shading loop is under way
ShadeIdle ==
    /\ script = "none"
    /\ dates_sorted = << >> /\ sun_map = << >>
    /\ start_dt = 0 /\ end_dt = 0 /\ i = 1 /\ spans = << >>

\* no call of compute_sun_table is under way
TableIdle == t_pc = "idle" /\ t_dates = << >> /\ t_keys = << >> /\ t_recs = << >>

\* no foF2 estimator is being compared
FofIdle ==
    /\ f_fn = "idle" /\ f_station = << >> /\ f_period = << >>
    /\ f_signal = 0 /\ f_out = 0

\* no file is being updated
PathIdle == u_pc = "idle" /\ u_content = << >> /\ u_readable = TRUE /\ u_changes = 0

\* no calendar conversion is under way
CalIdle ==
    /\ k_pc = "idle" /\ k_d = [year |-> 0, month |-> 0, day |-> 0]
    /\ k_off = 0 /\ k_jd = NoJd /\ k_dt = NoDt

\* no sun map is being built per date
MapIdle == m_days = << >> /\ m_raised = {}

\* no call of filter_to_best_quality_period is under way
FilterIdle ==
    /\ q_pc = "idle" /\ q_file = << >> /\ q_columns = {}
    /\ q_rows = << >> /\ q_out = << >>

\* no merge of enrich_file was made
EnrichIdle == e_merged = << >>

MoreIdle == MapIdle /\ FilterIdle /\ EnrichIdle

\* Combined.py 125: jd = julian_day(d)
CallJulianDay ==
    /\ pc = "start"
    /\ c_jd' = julian_day(c_d)
    /\ pc' = "coords"
    /\ UNCHANGED <<c_d, c_lat_deg, c_lon_deg, c_tz, c_H, c_Jtransit, c_Jrise, c_Jset, c_sr, c_ss, shadeVars, toolVars>>

\* Combined.py 126-129: jc, dec, lw, H
CallHourAngle ==
    /\ pc = "coords"
    /\ c_H' = hour_angle(c_lat_deg, solar_coords(jd_to_jcent(c_jd)).delta, -833)
    /\ pc' = "transit"
    /\ UNCHANGED <<c_d, c_lat_deg, c_lon_deg, c_tz, c_jd, c_Jtransit, c_Jrise, c_Jset, c_sr, c_ss, shadeVars, toolVars>>

\* Combined.py 130-132: Jtransit, Jrise, Jset
CallTransit ==
    /\ pc = "transit"
    /\ c_Jtransit' = solar_transit_jd(c_jd, c_lon_deg)
    /\ c_Jrise' = RiseJd(c_Jtransit', c_H)
    /\ c_Jset' = SetJd(c_Jtransit', c_H)
    /\ pc' = "convert"
    /\ UNCHANGED <<c_d, c_lat_deg, c_lon_deg, c_tz, c_jd, c_H, c_sr, c_ss, shadeVars, toolVars>>

\* Combined.py 133-135: sr, ss and the return
CallReturn ==
    /\ pc = "convert"
    /\ c_sr' = ToLocal(jd_to_utc_datetime(c_Jrise), c_tz)
    /\ c_ss' = ToLocal(jd_to_utc_datetime(c_Jset), c_tz)
    /\ pc' = "done"
    /\ UNCHANGED <<c_d, c_lat_deg, c_lon_deg, c_tz, c_jd, c_H, c_Jtransit, c_Jrise, c_Jset, shadeVars, toolVars>>

\* a call sunrise_sunset_local(d, lat_deg, lon_deg, tz) is entered
InitSun ==
    /\ pc = "start"
    /\ c_d \in SunDates
    /\ c_lat_deg \in LatSamples
    /\ c_lon_deg \in LonSamples
    /\ c_tz \in TzSamples \cup {TzOfLon(c_lon_deg)}
    /\ c_jd = NoJd /\ c_H = 0 /\ c_Jtransit = NoJd /\ c_Jrise = NoJd /\ c_Jset = NoJd
    /\ c_sr = NoDt /\ c_ss = NoDt
    /\ ShadeIdle
    /\ TableIdle /\ FofIdle /\ PathIdle /\ CalIdle /\ MoreIdle

NextSun == CallJulianDay \/ CallHourAngle \/ CallTransit \/ CallReturn

SunSpec == InitSun /\ [][NextSun]_vars

\* One iteration of the loop of Combined.optional_plot
OptionalPlotShade ==
    /\ script = "Combined"
    /\ i <= Len(dates_sorted)
    /\ spans' = spans \o OptionalPlotIter(i)
    /\ i' = i + 1
    /\ UNCHANGED <<script, dates_sorted, sun_map, start_dt, end_dt, sunVars, toolVars>>

\* One iteration of the loop of fig10 main
Fig10Shade ==
    /\ script = "fig10"
    /\ i <= Len(dates_sorted)
    /\ spans' = spans \o Fig10Iter(i)
    /\ i' = i + 1
    /\ UNCHANGED <<script, dates_sorted, sun_map, start_dt, end_dt, sunVars, toolVars>>

\* The days on which the first and the last DateTime of the data can lie.
\* fig10 builds DateTime from the Date column itself (load_and_standardize), so
\* they are dates of the sun map; Combined reads DateTime as a column of its own.
WindowDays(sc, S) == IF sc = "fig10" THEN S ELSE Days

\* The state when the loop starts: the dates of the sun map, their sun times,
\* and the window [min(DateTime) - 1h, max(DateTime) + 1h].
Init ==
    /\ script \in {"Combined", "fig10"}
    /\ \E S \in (SUBSET Days) \ {{}} :
          /\ dates_sorted = SortedSeq(S)
          /\ sun_map \in {f \in [S -> UNION {SunPairs(d) : d \in S}] :
                              \A d \in S : f[d] \in SunPairs(d)}
          /\ \E dmin \in WindowDays(script, S), dmax \in WindowDays(script, S),
                hmin \in DataHours, hmax \in DataHours :
                /\ Midnight(dmin) + hmin <= Midnight(dmax) + hmax
                /\ start_dt = Midnight(dmin) + hmin - MarginHours
                /\ end_dt = Midnight(dmax) + hmax + MarginHours
    /\ i = 1
    /\ spans = << >>
    /\ SunIdle
    /\ TableIdle /\ FofIdle /\ PathIdle /\ CalIdle /\ MoreIdle

Next == OptionalPlotShade \/ Fig10Shade

Spec == Init /\ [][Next]_vars

(***************************************************************************)
(* Properties of the shading loops                                         *)
(***************************************************************************)
LoopDone == i > Len(dates_sorted)

Known(d) == sun_map[d][1] # None /\ sun_map[d][2] # None

\* the axvspan calls made by loop iteration k
SpansOf(k) == SelectSeq(spans, LAMBDA s : s.idx = k)

\* the interval [l, r] if it is non-empty, tagged with the iteration
Piece(l, r, k) == IF l < r THEN << [left |-> l, right |-> r, idx |-> k] >> ELSE << >>

\* an interval meets the open stretch between 00:00 of d+1 and 00:00 of dn
MeetsGap(s, d, dn) == s.left < Midnight(dn) /\ s.right > Midnight(d + 1)

IsGapPair(k) ==
    /\ k + 1 <= Len(dates_sorted)
    /\ dates_sorted[k + 1] - dates_sorted[k] > 1
    /\ Known(dates_sorted[k]) /\ Known(dates_sorted[k + 1])

IsConsecutivePair(k) ==
    /\ k + 1 <= Len(dates_sorted)
    /\ dates_sorted[k + 1] - dates_sorted[k] = 1
    /\ Known(dates_sorted[k]) /\ Known(dates_sorted[k + 1])

\* C1: in Combined.optional_plot a pair of adjacent dates more than one day
\* apart yields only the evening piece [max(sunset(d), start), min(00:00 of
\* d+1, end)] and the morning piece [max(00:00 of d', start), min(sunrise(d'),
\* end)], each only if non-empty, and no shaded interval reaches into the
\* stretch strictly between 00:00 of d+1 and 00:00 of d'.
C1_NoBridgeAcrossGap ==
    script = "Combined" =>
        \A k \in 1..Len(dates_sorted) :
            IsGapPair(k) =>
                LET d  == dates_sorted[k]
                    dn == dates_sorted[k + 1]
                IN  /\ k < i =>
                          SpansOf(k) =
                              Piece(Max(sun_map[d][2], start_dt),
                                    Min(Midnight(d + 1), end_dt), k)
                              \o Piece(Max(Midnight(dn), start_dt),
                                       Min(sun_map[dn][1], end_dt), k)
                    /\ \A n \in 1..Len(spans) : ~MeetsGap(spans[n], d, dn)

\* C1 witness: the loop has finished over dates with a gap, and both the
\* evening and the morning piece of the gap pair were shaded, next to the
\* night of a consecutive pair.
C1_Witness ==
    /\ script = "Combined" /\ LoopDone
    /\ \E k \in 1..Len(dates_sorted) :
          /\ IsGapPair(k)
          /\ Len(SpansOf(k)) = 2
          /\ \E c \in 1..Len(dates_sorted) : IsConsecutivePair(c) /\ Len(SpansOf(c)) = 1

\* C2: for adjacent dates exactly one day apart Combined.optional_plot shades
\* exactly [max(sunset(d), start), min(sunrise(d+1), end)], and does so if and
\* only if its left end is strictly before its right end.
C2_ConsecutiveNight ==
    script = "Combined" =>
        \A k \in 1..Len(dates_sorted) :
            (IsConsecutivePair(k) /\ k < i) =>
                LET l == Max(sun_map[dates_sorted[k]][2], start_dt)
                    r == Min(sun_map[dates_sorted[k + 1]][1], end_dt)
                IN  /\ (l < r)  => SpansOf(k) = << [left |-> l, right |-> r, idx |-> k] >>
                    /\ ~(l < r) => SpansOf(k) = << >>

\* C2 witness: a finished run in which one consecutive night was shaded with
\* its left end clamped to the window and another consecutive night was
\* dropped because it lies outside the window.
C2_Witness ==
    /\ script = "Combined" /\ LoopDone
    /\ \E k \in 1..Len(dates_sorted) :
          /\ IsConsecutivePair(k)
          /\ Len(SpansOf(k)) = 1
          /\ SpansOf(k)[1].left = start_dt
          /\ start_dt > sun_map[dates_sorted[k]][2]
    /\ \E k \in 1..Len(dates_sorted) : IsConsecutivePair(k) /\ SpansOf(k) = << >>

\* C3: with exactly one date in the sun map the shaded intervals are exactly
\* [start, min(sunrise, end)] and [max(sunset, start), end], each kept only if
\* non-empty; for a window from 00:00 to 23:00 of the date with sunrise and
\* sunset inside it both are shaded.
C3_SingleDate ==
    (script = "Combined" /\ Len(dates_sorted) = 1 /\ LoopDone /\ Known(dates_sorted[1])) =>
        LET d  == dates_sorted[1]
            sr == sun_map[d][1]
            ss == sun_map[d][2]
        IN  /\ spans = Piece(start_dt, Min(sr, end_dt), 1) \o Piece(Max(ss, start_dt), end_dt, 1)
            /\ (/\ start_dt = Midnight(d)
                /\ end_dt = Midnight(d + 1) - MarginHours
                /\ start_dt < sr /\ sr < ss /\ ss < end_dt)
               => spans = << [left |-> start_dt, right |-> sr, idx |-> 1],
                             [left |-> ss, right |-> end_dt, idx |-> 1] >>

\* C3 witness: one date, the window runs from 00:00 to 23:00 of it, and both
\* the pre-sunrise and the post-sunset interval were shaded.
C3_Witness ==
    /\ script = "Combined" /\ Len(dates_sorted) = 1 /\ LoopDone /\ Known(dates_sorted[1])
    /\ start_dt = Midnight(dates_sorted[1])
    /\ end_dt = Midnight(dates_sorted[1] + 1) - MarginHours
    /\ Len(spans) = 2

\* C4: every interval shaded by Combined.optional_plot lies in the window and
\* is non-empty: start <= left < right <= end.
C4_SpansInsideWindow ==
    script = "Combined" =>
        \A n \in 1..Len(spans) :
            /\ start_dt <= spans[n].left
            /\ spans[n].left < spans[n].right
            /\ spans[n].right <= end_dt

\* C4 witness: a finished run that shaded an interval whose two ends were both
\* clamped to the window, and that dropped a candidate that clamping emptied.
C4_Witness ==
    /\ script = "Combined" /\ LoopDone
    /\ \E n \in 1..Len(spans) : spans[n].left = start_dt /\ spans[n].right = end_dt
    /\ \E k \in 1..Len(dates_sorted) :
          IsConsecutivePair(k)
          /\ Max(sun_map[dates_sorted[k]][2], start_dt) >=
                 Min(sun_map[dates_sorted[k + 1]][1], end_dt)

\* C5: the shading loop of fig10 main follows the gap policy: no shaded
\* interval reaches into the stretch strictly between 00:00 of d+1 and 00:00
\* of d' for adjacent dates d < d' more than one day apart.
C5_Fig10NoBridgeAcrossGap ==
    script = "fig10" =>
        \A k \in 1..Len(dates_sorted) :
            IsGapPair(k) =>
                \A n \in 1..Len(spans) :
                    ~MeetsGap(spans[n], dates_sorted[k], dates_sorted[k + 1])

(***************************************************************************)
(* Properties of sunrise_sunset_local                                      *)
(***************************************************************************)
\* the date-time one day later
NextDay(dt) == [ord |-> dt.ord + 1, sec |-> dt.sec]

\* the hour-angle cosine of the call under way, before clamping
CallRawCosH ==
    RawCosH(c_lat_deg, solar_coords(jd_to_jcent(julian_day(c_d))).delta, -833)

\* C6: for a longitude paired with its own fixed-offset zone and a
\* non-degenerate latitude (here: within 60 degrees of the equator, cosine of
\* the hour angle strictly inside (-1, 1)), sunrise and sunset both fall on
\* the local calendar date d, sunrise before sunset.
C6_SunTimesOnLocalDate ==
    (/\ pc = "done"
     /\ c_tz = TzOfLon(c_lon_deg)
     /\ c_lat_deg > -60000 /\ c_lat_deg < 60000
     /\ CallRawCosH > -10000 /\ CallRawCosH < 10000)
    => /\ c_sr.ord = Ordinal(c_d.year, c_d.month, c_d.day)
       /\ c_ss.ord = Ordinal(c_d.year, c_d.month, c_d.day)
       /\ DtLess(c_sr, c_ss)

\* C7: julian_day(d) is the Julian Day number of 12:00 UTC of date d, the
\* whole number 1721425 + ordinal(d) (2451545.0 for 2000-01-01).
C7_JulianDayIsNoon ==
    pc \in {"coords", "transit", "convert", "done"} =>
        c_jd = [day |-> 1721425 + Ordinal(c_d.year, c_d.month, c_d.day), frac |-> 0]

MaxRows == 4           \* the dates column has at most MaxRows entries

TableLat == 5414       \* LAT = 5.4139, in millidegrees
TableLon == 118039     \* LON = 118.0385, in millidegrees
TableTz == 8           \* LOCAL_TZ = Asia/Kuching, UTC+8 all year

NoDate == [year |-> 0, month |-> 0, day |-> 0]

\* the missing timestamp
NaT == [date |-> NoDate, hour |-> 0]

TableDates ==
    {[year |-> 2023, month |-> 12, day |-> 31],
     [year |-> 2024, month |-> 1, day |-> 1],
     [year |-> 2024, month |-> 2, day |-> 29]}

TableHours == {0, 13}

\* the values an entry of the dates column can take
Timestamps == {[date |-> d, hour |-> h] : d \in TableDates, h \in TableHours} \cup {NaT}

\* all columns of at most n entries
Columns(n) == UNION {[1..m -> Timestamps] : m \in 0..n}

\* .dt.date: the calendar date of a timestamp, the time of day dropped
dt_date(ts) == ts.date

\* pd.notna
notna(d) == d # NoDate

\* date.__lt__ with the arguments exchanged
DateLessReversed(a, b) ==
    \/ a.year > b.year
    \/ a.year = b.year /\ a.month > b.month
    \/ a.year = b.year /\ a.month = b.month /\ a.day > b.day

\* date.__lt__: years, then months, then days
DateLess(a, b) ==
    \/ a.year < b.year
    \/ a.year = b.year /\ a.month < b.month
    \/ a.year = b.year /\ a.month = b.month /\ a.day < b.day

\* sorted(S) for a set of dates
RECURSIVE SortedDates(_)
SortedDates(S) ==
    IF S = {} THEN << >>
    ELSE LET m == CHOOSE x \in S : \A y \in S \ {x} : DateLess(x, y)
         IN  <<m>> \o SortedDates(S \ {m})

\* sorted({d for d in pd.to_datetime(dates).dt.date if pd.notna(d)})
SunTableKeys(col) ==
    SortedDates({d \in {dt_date(col[n]) : n \in DOMAIN col} : notna(d)})

\* pd.Timestamp(d), normalized: 00:00 of the date
Timestamp(d) == [ord |-> Ordinal(d.year, d.month, d.day), sec |-> 0]

\* the row appended for date d
SunTableRow(d, lat, lon, tz) ==
    LET p == sunrise_sunset_local(d, lat, lon, tz)
    IN  [Date |-> Timestamp(d), Sunrise |-> p[1], Sunset |-> p[2]]

\* Combined.py 194: the loop header evaluates the sorted set of dates
TableStart ==
    /\ t_pc = "start"
    /\ t_keys' = SunTableKeys(t_dates)
    /\ t_pc' = "loop"
    /\ UNCHANGED <<t_dates, t_recs, shadeVars, sunVars, fofVars, pathVars, calVars, moreVars>>

\* Combined.py 195-196: one iteration of the loop
TableAppend ==
    /\ t_pc = "loop"
    /\ Len(t_recs) < Len(t_keys)
    /\ t_recs' = Append(t_recs, SunTableRow(t_keys[Len(t_recs) + 1], TableLat, TableLon, TableTz))
    /\ UNCHANGED <<t_dates, t_keys, t_pc, shadeVars, sunVars, fofVars, pathVars, calVars, moreVars>>

\* Combined.py 197-200: the data frame of the rows is returned, its Date
\* column normalized to 00:00 when there is a row at all
TableReturn ==
    /\ t_pc = "loop"
    /\ Len(t_recs) = Len(t_keys)
    /\ t_recs' = [n \in DOMAIN t_recs |->
                     [t_recs[n] EXCEPT !.Date = [ord |-> t_recs[n].Date.ord, sec |-> 0]]]
    /\ t_pc' = "done"
    /\ UNCHANGED <<t_dates, t_keys, shadeVars, sunVars, fofVars, pathVars, calVars, moreVars>>

\* a call compute_sun_table(dates, LAT, LON, LOCAL_TZ) is entered
InitTable ==
    /\ t_pc = "start"
    /\ t_dates \in Columns(MaxRows)
    /\ t_keys = << >> /\ t_recs = << >>
    /\ ShadeIdle /\ SunIdle /\ FofIdle /\ PathIdle /\ CalIdle /\ MoreIdle

NextTable == TableStart \/ TableAppend \/ TableReturn

TableSpec == InitTable /\ [][NextTable]_vars

\* the non-missing calendar dates of the input column
InputDates == {dt_date(t_dates[n]) : n \in DOMAIN t_dates} \ {NoDate}

\* C11: the table returned by compute_sun_table has exactly one row for each
\* distinct non-missing calendar date of the input column and no other row,
\* and its rows are in strictly ascending date order, whatever the repeats
\* and the order of the input; a missing date gives no row.
C11_OneRowPerDate ==
    t_pc = "done" =>
        /\ \A d \in InputDates :
              Cardinality({n \in DOMAIN t_recs : t_recs[n].Date = Timestamp(d)}) = 1
        /\ \A n \in DOMAIN t_recs : \E d \in InputDates : t_recs[n].Date = Timestamp(d)
        /\ \A n \in DOMAIN t_recs : \A m \in DOMAIN t_recs :
              n < m => DtLess(t_recs[n].Date, t_recs[m].Date)

\* C11 witness: a returned table of two rows for a column of four entries
\* that holds a missing date, one date twice at different times of day, and
\* two dates in descending order.
C11_Witness ==
    /\ t_pc = "done"
    /\ Len(t_dates) = 4 /\ Len(t_recs) = 2
    /\ \E n \in DOMAIN t_dates : t_dates[n] = NaT
    /\ \E n \in DOMAIN t_dates : \E m \in DOMAIN t_dates :
          /\ n < m /\ notna(dt_date(t_dates[m]))
          /\ DateLess(dt_date(t_dates[m]), dt_date(t_dates[n]))
    /\ \E n \in DOMAIN t_dates : \E m \in DOMAIN t_dates :
          /\ n # m /\ t_dates[n] # t_dates[m]
          /\ notna(dt_date(t_dates[n]))
          /\ dt_date(t_dates[n]) = dt_date(t_dates[m])

(***************************************************************************)
(* Part 4: the signal-to-foF2 estimators.  A frequency is counted in       *)
(* 1/120 MHz, which holds tenths of a MHz and signal/10 and signal/12 of a *)
(* whole-dB signal exactly; a string is the sequence of its characters.    *)
(***************************************************************************)
MaxSignal == 100       \* signal values are the whole dB in -MaxSignal..MaxSignal

FofUnit == 120         \* steps of the frequency scale per MHz

\* the missing signal value
NaN == -1000000

\* x tenths of a MHz on the frequency scale
MHz10(x) == (x * FofUnit) \div 10

\* signal / scale_factor on the frequency scale
SignalFactor(signal, scale) == (signal * FofUnit) \div scale

\* np.clip without its upper bound
np_clip_lower_only(x, lo, hi) == IF x < lo THEN lo ELSE x

\* np.clip(x, lo, hi)
np_clip(x, lo, hi) == IF x < lo THEN lo ELSE IF x > hi THEN hi ELSE x

\* sub in s, for strings
Contains(sub, s) ==
    \E k \in 0..(Len(s) - Len(sub)) : SubSeq(s, k + 1, k + Len(sub)) = sub

Guam == <<"G", "u", "a", "m">>
Darwin == <<"D", "a", "r", "w", "i", "n">>
p15th == <<"1", "5", "t", "h">>
p15_28 == <<"1", "5", "-", "2", "8">>
April == <<"A", "p", "r", "i", "l">>
April15th == <<"A", "p", "r", "i", "l", " ", "1", "5", "t", "h">>
April15_28 == <<"A", "p", "r", "i", "l", " ", "1", "5", "-", "2", "8">>
FullApril == <<"F", "u", "l", "l", " ", "A", "p", "r", "i", "l">>

Stations == {Guam, Darwin}

Periods == {April, April15th, April15_28, FullApril}

Signals == (-MaxSignal..MaxSignal) \cup {NaN}

\* darwin_april15_fof2_7years.calculate_fof2_from_signal, for one element of
\* the array signal_db: the arithmetic keeps a missing value missing
darwin_april15_calculate_fof2_from_signal(signal_db) ==
    IF signal_db = NaN THEN NaN
    ELSE np_clip(MHz10(90) + SignalFactor(signal_db, 12), MHz10(30), MHz10(150))

\* guam_fof2_april.calculate_fof2_from_signal, for one element of signal_db
guam_fof2_april_calculate_fof2_from_signal(signal_db) ==
    IF signal_db = NaN THEN NaN
    ELSE np_clip(MHz10(105) + SignalFactor(signal_db, 10), MHz10(40), MHz10(180))

\* the loop of the two list-building estimators over the one-element list
\* <<signal>>: a missing signal is skipped
FofLoop(signal, baseline_fof2, scale_factor, min_fof2, max_fof2) ==
    IF signal = NaN THEN << >>
    ELSE << np_clip(baseline_fof2 + SignalFactor(signal, scale_factor), min_fof2, max_fof2) >>

\* generate_corrected_charts.calculate_fof2_from_signal_correct
calculate_fof2_from_signal_correct(signal, station, period) ==
    IF Contains(Guam, station)
    THEN IF Contains(p15th, period) THEN FofLoop(signal, MHz10(110), 10, MHz10(40), MHz10(180))
         ELSE IF Contains(p15_28, period) THEN FofLoop(signal, MHz10(112), 10, MHz10(40), MHz10(180))
         ELSE FofLoop(signal, MHz10(110), 10, MHz10(40), MHz10(180))
    ELSE IF Contains(p15_28, period) THEN FofLoop(signal, MHz10(92), 12, MHz10(30), MHz10(150))
         ELSE IF Contains(p15th, period) THEN FofLoop(signal, MHz10(90), 10, MHz10(30), MHz10(150))
         ELSE FofLoop(signal, MHz10(85), 10, MHz10(30), MHz10(150))

\* standardized_layout_enforcer.calculate_fof2_from_signal
layout_enforcer_calculate_fof2_from_signal(signal, station, period) ==
    IF Contains(Guam, station)
    THEN IF Contains(p15th, period) THEN FofLoop(signal, MHz10(110), 10, MHz10(40), MHz10(180))
         ELSE FofLoop(signal, MHz10(112), 10, MHz10(40), MHz10(180))
    ELSE IF Contains(p15_28, period) THEN FofLoop(signal, MHz10(92), 12, MHz10(30), MHz10(150))
         ELSE FofLoop(signal, MHz10(85), 10, MHz10(30), MHz10(150))

\* darwin_april15_fof2_7years.py estimates the signal
CallDarwinApril15 ==
    /\ f_fn = "none"
    /\ f_out' = << darwin_april15_calculate_fof2_from_signal(f_signal) >>
    /\ f_fn' = "darwin_april15"
    /\ UNCHANGED <<f_station, f_period, f_signal, shadeVars, sunVars, tableVars, pathVars, calVars, moreVars>>

\* guam_fof2_april.py estimates the signal
CallGuamApril ==
    /\ f_fn = "none"
    /\ f_out' = << guam_fof2_april_calculate_fof2_from_signal(f_signal) >>
    /\ f_fn' = "guam_april"
    /\ UNCHANGED <<f_station, f_period, f_signal, shadeVars, sunVars, tableVars, pathVars, calVars, moreVars>>

\* generate_corrected_charts.py estimates the signal for the station and period
CallCorrect ==
    /\ f_fn = "none"
    /\ f_out' = calculate_fof2_from_signal_correct(f_signal, f_station, f_period)
    /\ f_fn' = "correct"
    /\ UNCHANGED <<f_station, f_period, f_signal, shadeVars, sunVars, tableVars, pathVars, calVars, moreVars>>

\* standardized_layout_enforcer.py estimates the signal for the station and period
CallEnforcer ==
    /\ f_fn = "none"
    /\ f_out' = layout_enforcer_calculate_fof2_from_signal(f_signal, f_station, f_period)
    /\ f_fn' = "enforcer"
    /\ UNCHANGED <<f_station, f_period, f_signal, shadeVars, sunVars, tableVars, pathVars, calVars, moreVars>>

\* a signal value of a station's sheet for a period, before any estimate
InitFof ==
    /\ f_fn = "none"
    /\ f_station \in Stations
    /\ f_period \in Periods
    /\ f_signal \in Signals
    /\ f_out = << >>
    /\ ShadeIdle /\ SunIdle /\ TableIdle /\ PathIdle /\ CalIdle /\ MoreIdle

NextFof == CallDarwinApril15 \/ CallGuamApril \/ CallCorrect \/ CallEnforcer

FofSpec == InitFof /\ [][NextFof]_vars

\* C12: each original estimator returns clamp(baseline + signal/scale, min,
\* max) for every signal value: the result lies in [min, max], equals
\* baseline + signal/scale when that lies in the range and the nearer bound
\* otherwise.  Darwin April 15th has baseline 9.0, scale 12 and range [3, 15]:
\* in 1/120 MHz, 1080 + 10 per dB in [360, 1800].  Guam April has baseline
\* 10.5, scale 10 and range [4, 18]: 1260 + 12 per dB in [480, 2160].
C12_EstimateIsClamp ==
    LET IsClamp(exact, lo, hi) ==
            /\ Len(f_out) = 1
            /\ lo <= f_out[1] /\ f_out[1] <= hi
            /\ (lo <= exact /\ exact <= hi) => f_out[1] = exact
            /\ exact < lo => f_out[1] = lo
            /\ exact > hi => f_out[1] = hi
    IN  /\ (f_fn = "darwin_april15" /\ f_signal # NaN) =>
              IsClamp(1080 + 10 * f_signal, 360, 1800)
        /\ (f_fn = "guam_april" /\ f_signal # NaN) =>
              IsClamp(1260 + 12 * f_signal, 480, 2160)

\* C12 witness: the Guam April estimator returned the upper bound 18 MHz for
\* a signal of 80 dB, whose unclamped estimate is 18.5 MHz.
C12_Witness ==
    /\ f_fn = "guam_april"
    /\ f_signal = 80
    /\ f_out = << 2160 >>

\* whether the call under way is for station st (Guam when the name holds
\* "Guam", Darwin otherwise) and a period that holds every string of has
\* and none of hasnot
FofCase(fn, st, has, hasnot) ==
    /\ f_fn = fn
    /\ f_signal # NaN
    /\ f_station = st
    /\ \A w \in has : Contains(w, f_period)
    /\ \A w \in hasnot : ~Contains(w, f_period)

\* C15: for station Darwin and a period containing "15th",
\* calculate_fof2_from_signal_correct returns for every non-missing signal
\* exactly the value of darwin_april15_fof2_7years.calculate_fof2_from_signal.
C15_CorrectMatchesDarwinApril15 ==
    FofCase("correct", Darwin, {p15th}, {}) =>
        f_out = << darwin_april15_calculate_fof2_from_signal(f_signal) >>

\* C16: for station Guam and a period containing neither "15th" nor "15-28",
\* calculate_fof2_from_signal_correct returns for every non-missing signal
\* exactly the value of guam_fof2_april.calculate_fof2_from_signal.
C16_CorrectMatchesGuamApril ==
    FofCase("correct", Guam, {}, {p15th, p15_28}) =>
        f_out = << guam_fof2_april_calculate_fof2_from_signal(f_signal) >>

\* C17: for station Darwin and a period containing "15th",
\* standardized_layout_enforcer.calculate_fof2_from_signal returns for every
\* non-missing signal exactly the value of
\* darwin_april15_fof2_7years.calculate_fof2_from_signal.
C17_EnforcerMatchesDarwinApril15 ==
    FofCase("enforcer", Darwin, {p15th}, {}) =>
        f_out = << darwin_april15_calculate_fof2_from_signal(f_signal) >>

(***************************************************************************)
(* Part 5: update_paths_in_file of update_paths.py.  The text of a file is *)
(* a sequence of tokens: the path separator "/", path components, other    *)
(* pieces of a line, and the line end "\n".                                 *)
(***************************************************************************)
MaxLines == 2          \* a file has at most MaxLines lines

\* "/c1/c2/..." for the components c1, c2, ...
RECURSIVE Slash(_)
Slash(comps) ==
    IF comps = << >> THEN << >> ELSE <<"/", Head(comps)>> \o Slash(Tail(comps))

\* "c1/c2/...", a relative path
Rel(comps) == Tail(Slash(comps))

\* "/Users/samanthabutterworth" followed by the components
Personal(comps) == Slash(<<"Users", "samanthabutterworth">> \o comps)

\* the replacements list, in the order of the source
replacements ==
    << <<Personal(<<"Desktop", "Marks_phD", "NVIS_data.xlsx">>), Rel(<<"data", "NVIS_data.xlsx">>)>>,
       <<Personal(<<"Desktop", "NVIS_data.xlsx">>), Rel(<<"data", "NVIS_data.xlsx">>)>>,
       <<Personal(<<"Desktop", "test", "test2", "corrected">>), Rel(<<"output", "corrected">>)>>,
       <<Personal(<<"Desktop", "test", "test2">>), <<"output">> >>,
       <<Personal(<<"Desktop", "test">>), <<"output">> >>,
       <<Personal(<<"Desktop", "Marks_phD">>), <<"output">> >>,
       <<Personal(<<"Desktop">>), <<"output">> >>,
       <<Personal(<<"PycharmProjects", "pythonProject3", "Mark_paper_2">>) \o <<"/">>, << >> >>,
       <<Personal(<<"PycharmProjects", "pythonProject3", "venv", "bin", "python">>), <<"python">> >>,
       <<Personal(<<"Desktop", "final7.1_new.xlsx">>), Rel(<<"data", "final7.1_new.xlsx">>)>>,
       <<Personal(<<"Desktop", "Marks_phD", "final_7.1.xlsx">>), Rel(<<"data", "final_7.1.xlsx">>)>>,
       <<Personal(<<"Desktop", "Marks_phD", "final_10.130.xlsx">>), Rel(<<"data", "final_10.130.xlsx">>)>>,
       <<Personal(<<"Desktop", "Marks_phD", "5_GHZ_Standardized_data_preview__first_200_rows_.csv">>),
         Rel(<<"data", "5_GHZ_Standardized_data_preview__first_200_rows_.csv">>)>> >>

\* the two lines the special case looks for
save_function_pattern ==
    <<"desktop_path = ">> \o Personal(<<"Desktop">>) \o <<"\n", "test_folder = os.path.join(desktop_path, test)">>

save_function_replacement ==
    <<"output_dir = output", "\n", "if not os.path.exists(output_dir):", "\n",
      "os.makedirs(output_dir)", "\n", "test_folder = output_dir">>

\* re.sub(pattern, replacement, content) for a literal pattern: every
\* occurrence, leftmost first, none overlapping
RECURSIVE re_sub(_, _, _)
re_sub(pattern, replacement, content) ==
    IF Len(content) < Len(pattern) THEN content
    ELSE IF SubSeq(content, 1, Len(pattern)) = pattern
         THEN replacement \o re_sub(pattern, replacement,
                                    SubSeq(content, Len(pattern) + 1, Len(content)))
         ELSE <<Head(content)>> \o re_sub(pattern, replacement, Tail(content))

\* update_paths.py 58-64: the replacements from the k-th on, applied in turn
RECURSIVE ApplyReplacements(_, _, _)
ApplyReplacements(k, content, changes_made) ==
    IF k > Len(replacements) THEN [content |-> content, changes_made |-> changes_made]
    ELSE LET new_content == re_sub(replacements[k][1], replacements[k][2], content)
         IN  IF new_content # content
             THEN ApplyReplacements(k + 1, new_content, changes_made + 1)
             ELSE ApplyReplacements(k + 1, content, changes_made)

\* update_paths.py 67-76: the save-function special case
SpecialCase(r) ==
    IF Contains(<<"save_standardized_chart">>, r.content)
    THEN LET new_content == re_sub(save_function_pattern, save_function_replacement, r.content)
         IN  IF new_content # r.content
             THEN [content |-> new_content, changes_made |-> r.changes_made + 1]
             ELSE r
    ELSE r

\* the shapes of line found in the scripts of the repository
RepoLines ==
    { Personal(<<"Desktop", "Marks_phD", "NVIS_data.xlsx">>),
      Personal(<<"Desktop", "test", "test2", "corrected">>),
      Personal(<<"Desktop", "test", "test2">>),
      Personal(<<"Desktop", "test">>),
      Personal(<<"Desktop", "Marks_phD", "best_quality_7_1_MHz.png">>),
      Personal(<<"Desktop", "final7.1_new.xlsx">>),
      Personal(<<"PycharmProjects", "pythonProject3", "venv", "bin", "python">>),
      Personal(<<"PycharmProjects", "pythonProject3", "Mark_paper_2", "generate_corrected_charts.py">>),
      Personal(<<"PycharmProjects", "pythonProject3">>),
      Personal(<<"PycharmProjects", "pythonProject3">>) \o <<"/">>,
      Personal(<<"PycharmProjects", "pythonProject3", "{title1}.png">>),
      Rel(<<"data", "NVIS_data.xlsx">>),
      <<"def save_standardized_chart", "\n">> \o save_function_pattern }

\* the files of n lines
RECURSIVE Files(_)
Files(n) ==
    IF n = 0 THEN {<< >>}
    ELSE {l \o <<"\n">> \o f : l \in RepoLines, f \in Files(n - 1)}

\* update_paths.py 25-86: the file is read, rewritten and saved
UpdatePathsInFile ==
    /\ u_pc = "start"
    /\ u_readable
    /\ LET r == SpecialCase(ApplyReplacements(1, u_content, 0))
       IN  /\ u_content' = r.content
           /\ u_changes' = r.changes_made
    /\ u_pc' = "done"
    /\ UNCHANGED <<u_readable, shadeVars, sunVars, tableVars, fofVars, calVars, moreVars>>

\* update_paths.py 88-90: reading fails, the file stays as it is
UpdatePathsFails ==
    /\ u_pc = "start"
    /\ ~u_readable
    /\ u_changes' = 0
    /\ u_pc' = "done"
    /\ UNCHANGED <<u_content, u_readable, shadeVars, sunVars, tableVars, fofVars, calVars, moreVars>>

\* a call update_paths_in_file(filepath) is entered
InitPath ==
    /\ u_pc = "start"
    /\ u_content \in UNION {Files(n) : n \in 1..MaxLines}
    /\ u_readable \in BOOLEAN
    /\ u_changes = 0
    /\ ShadeIdle /\ SunIdle /\ TableIdle /\ FofIdle /\ CalIdle /\ MoreIdle

NextPath == UpdatePathsInFile \/ UpdatePathsFails

PathSpec == InitPath /\ [][NextPath]_vars

\* the text holds a path that starts with /Users/samanthabutterworth/
HasPersonalPath(content) == Contains(Personal(<< >>) \o <<"/">>, content)

\* C14: after update_paths_in_file has processed a file, no path starting
\* with /Users/samanthabutterworth/ remains in it, whether it was a Desktop
\* path or a PycharmProjects/pythonProject3 path.
C14_NoPersonalPathLeft ==
    (u_pc = "done" /\ u_readable) => ~HasPersonalPath(u_content)

(***************************************************************************)
(* Further properties of sunrise_sunset_local                              *)
(***************************************************************************)
\* sunset minus sunrise, in seconds
DayLength(sr, ss) == (ss.ord - sr.ord) * 86400 + ss.sec - sr.sec

\* the day length returned for 21 December of year y with the other
\* arguments of the call under way
DecemberDayLength(y) ==
    LET p == sunrise_sunset_local([year |-> y, month |-> 12, day |-> 21],
                                  c_lat_deg, c_lon_deg, c_tz)
    IN  DayLength(p[1], p[2])

\* the call under way is for 21 June and has returned
JuneCallDone == pc = "done" /\ c_d.month = 6 /\ c_d.day = 21

\* C13 as stated: for every positive latitude, any longitude and any time
\* zone, the day length returned for June 21 is greater than the one
\* returned for December 21 of the same year.
C13_JuneLongerThanDecember ==
    (JuneCallDone /\ c_lat_deg > 0) =>
        DayLength(c_sr, c_ss) > DecemberDayLength(c_d.year)

\* C13 amended: for every latitude of at least 1 degree north, any longitude
\* and any time zone, the day length returned for June 21 is greater than
\* the one returned for December 21 of the same year.
C13_JuneLongerFromOneDegree ==
    (JuneCallDone /\ c_lat_deg >= 1000) =>
        DayLength(c_sr, c_ss) > DecemberDayLength(c_d.year)

\* C13 witness: a call at 45 degrees north for 21 June returned a day more
\* than six hours longer than that of 21 December.
C13_Witness ==
    /\ JuneCallDone
    /\ c_lat_deg = 45000
    /\ DayLength(c_sr, c_ss) > DecemberDayLength(c_d.year) + 6 * 3600

\* a - b for two Julian Days, in millionths of a day
JdDiff(a, b) == (a.day - b.day) * 1000000 + a.frac - b.frac

\* the local wall-clock time of the transit of the call under way
SolarNoon == ToLocal(jd_to_utc_datetime(c_Jtransit), c_tz)

CalYears == {1, 4, 200, 300, 1500, 1582, 1583, 1600, 1900, 2000, 2023, 2024}

CalDays == {1, 4, 10, 14, 15, 28, 29, 30, 31}

\* times of day in millionths of a day: 00:00:00, fractions of a second that
\* round down and up, noon, and the last moments of the day
CalOffsets == {0, 5, 6, 500000, 999994, 999995, 999999}

\* the number of days of a month of the proleptic Gregorian calendar
DaysInMonth(y, m) ==
    IF m = 2 THEN (IF IsLeap(y) THEN 29 ELSE 28)
    ELSE IF m \in {4, 6, 9, 11} THEN 30 ELSE 31

\* datetime(year, month, day) accepts the fields; it raises ValueError otherwise
ValidDate(y, m, dd) ==
    /\ y >= 1 /\ y <= 9999
    /\ m >= 1 /\ m <= 12
    /\ dd >= 1 /\ dd <= DaysInMonth(y, m)

CalDates ==
    {x \in [year : CalYears, month : 1..12, day : CalDays] :
        ValidDate(x.year, x.month, x.day)}

\* Combined.py 70-75 and 131-132: the Julian Day of a time of day on date d
CalJulianDay ==
    /\ k_pc = "start"
    /\ k_jd' = JdAdd(julian_day(k_d), k_off)
    /\ k_pc' = "jd"
    /\ UNCHANGED <<k_d, k_off, k_dt, shadeVars, sunVars, tableVars, fofVars, pathVars, moreVars>>

\* Combined.py 104-122: jd_to_utc_datetime returns
CalDatetime ==
    /\ k_pc = "jd"
    /\ LET f == jd_fields(k_jd) IN ValidDate(f.year, f.month, f.day_int)
    /\ k_dt' = jd_to_utc_datetime(k_jd)
    /\ k_pc' = "done"
    /\ UNCHANGED <<k_d, k_off, k_jd, shadeVars, sunVars, tableVars, fofVars, pathVars, moreVars>>

\* Combined.py 122: datetime(year, month, day_int) raises ValueError
CalDatetimeRaises ==
    /\ k_pc = "jd"
    /\ LET f == jd_fields(k_jd) IN ~ValidDate(f.year, f.month, f.day_int)
    /\ k_pc' = "error"
    /\ UNCHANGED <<k_d, k_off, k_jd, k_dt, shadeVars, sunVars, tableVars, fofVars, pathVars, moreVars>>

\* a date and a time of day are chosen
InitCal ==
    /\ k_pc = "start"
    /\ k_d \in CalDates
    /\ k_off \in CalOffsets
    /\ k_jd = NoJd /\ k_dt = NoDt
    /\ ShadeIdle /\ SunIdle /\ TableIdle /\ FofIdle /\ PathIdle /\ MoreIdle

NextCal == CalJulianDay \/ CalDatetime \/ CalDatetimeRaises

CalSpec == InitCal /\ [][NextCal]_vars

\* the instant of Julian Day jd on the proleptic Gregorian calendar of
\* datetime, rounded to the nearest second: Julian Day 1721425.5 is 00:00 UTC
\* of ordinal 1 (0001-01-01)
InstantOf(jd) ==
    LET J == JdAdd(jd, 500000)
    IN  DtAdd([ord |-> J.day - 1721425, sec |-> 0],
              RoundHalfEven((J.frac * 864) \div 10000, (J.frac * 864) % 10000, 10000))

\* C19: jd_to_utc_datetime returns the instant of the Julian Day rounded to
\* the nearest whole second; a fraction that rounds up to 86400 seconds gives
\* 00:00:00 of the following calendar day, also across month and year ends;
\* it never returns an invalid date and never raises.
C19_RoundedToNearestSecond ==
    /\ k_pc # "error"
    /\ k_pc = "done" =>
          /\ k_dt = InstantOf(k_jd)
          /\ k_dt.sec >= 0 /\ k_dt.sec < 86400
          /\ k_off >= 999995 =>
                k_dt = [ord |-> Ordinal(k_d.year, k_d.month, k_d.day) + 1, sec |-> 0]

\* C20: for every proleptic Gregorian date d from year 1 onward,
\* jd_to_utc_datetime(julian_day(d)) is 00:00:00 UTC of the same date d.
C20_RoundTrip ==
    k_off = 0 =>
        /\ k_pc # "error"
        /\ k_pc = "done" => k_dt = [ord |-> Ordinal(k_d.year, k_d.month, k_d.day), sec |-> 0]

(***************************************************************************)
(* Further properties of the shading loop of Combined.optional_plot        *)
(***************************************************************************)
FirstDate == dates_sorted[1]

LastDate == dates_sorted[Len(dates_sorted)]

\* C21: with two or more dates in the sun map no shaded interval holds an
\* instant before the sunset of the earliest date or after the sunrise of the
\* latest date, even when the plot window reaches beyond them.
C21_NothingOutsideFirstSunsetLastSunrise ==
    (script = "Combined" /\ Len(dates_sorted) >= 2) =>
        \A n \in 1..Len(spans) :
            /\ sun_map[FirstDate][2] # None => spans[n].left >= sun_map[FirstDate][2]
            /\ sun_map[LastDate][1] # None => spans[n].right <= sun_map[LastDate][1]

\* C21 witness: a finished run over three or more dates whose window starts
\* before the first sunset and ends after the last sunrise; one interval
\* starts at the first sunset and one ends at the last sunrise.
C21_Witness ==
    /\ script = "Combined" /\ LoopDone /\ Len(dates_sorted) >= 3
    /\ Known(FirstDate) /\ Known(LastDate)
    /\ start_dt < sun_map[FirstDate][2]
    /\ end_dt > sun_map[LastDate][1]
    /\ \E n \in 1..Len(spans) : spans[n].left = sun_map[FirstDate][2]
    /\ \E n \in 1..Len(spans) : spans[n].right = sun_map[LastDate][1]

\* every date of the sun map has 00:00 of d <= sunrise(d) < sunset(d) < 00:00 of d+1
SunTimesOnTheirDates ==
    \A k \in 1..Len(dates_sorted) :
        LET d == dates_sorted[k]
        IN  /\ Known(d)
            /\ Midnight(d) <= sun_map[d][1]
            /\ sun_map[d][1] < sun_map[d][2]
            /\ sun_map[d][2] < Midnight(d + 1)

\* C22: if every date has its sunrise and sunset on itself, sunrise first,
\* the intervals shaded by Combined.optional_plot are pairwise disjoint and
\* emitted in strictly increasing time order: each one ends before the next
\* one emitted begins.
C22_SpansDisjointIncreasing ==
    (script = "Combined" /\ SunTimesOnTheirDates) =>
        /\ \A n \in 1..Len(spans) : \A m \in 1..Len(spans) :
              n < m => spans[n].right < spans[m].left
        /\ \A n \in 1..Len(spans) : spans[n].left < spans[n].right

\* C22 witness: a finished run over consecutive dates and a gap, all with
\* sun times, that shaded at least three intervals, two of them by the same
\* iteration.
C22_Witness ==
    /\ script = "Combined" /\ LoopDone /\ SunTimesOnTheirDates
    /\ Len(spans) >= 3
    /\ \E k \in 1..Len(dates_sorted) : IsGapPair(k) /\ Len(SpansOf(k)) = 2
    /\ \E k \in 1..Len(dates_sorted) : IsConsecutivePair(k) /\ Len(SpansOf(k)) = 1

(***************************************************************************)
(* Part 7: the sun map computed date by date, by compute_sun_map of fig10   *)
(* and by the fallback branch of Combined.optional_plot, followed by the   *)
(* shading loop of the script.                                             *)
(***************************************************************************)
\* the pairs sunrise_sunset_local can return for date d
ComputedPairs(d) ==
    {<<Midnight(d) + r, Midnight(d) + s>> : r \in SunriseHours, s \in SunsetHours}

\* the entry when the except clause is missing: the pair is recorded anyway
SunMapEntryUnguarded(pair, raised) == pair

\* try: sr, ss = sunrise_sunset_local(...)  except Exception: sr, ss = (None, None)
SunMapEntry(pair, raised) == IF raised THEN <<None, None>> ELSE pair

\* sun[d] = (sr, ss)
SunMapWith(d, entry) ==
    [x \in DOMAIN sun_map \cup {d} |-> IF x = d THEN entry ELSE sun_map[x]]

\* the sun map is being filled and the next date of unique_days is due
MapFilling ==
    /\ script \in {"Combined", "fig10"}
    /\ dates_sorted = << >>
    /\ Cardinality(DOMAIN sun_map) < Len(m_days)

NextMapDay == m_days[Cardinality(DOMAIN sun_map) + 1]

\* one iteration of the loop over unique_days: sunrise_sunset_local returns
SunMapCompute ==
    /\ MapFilling
    /\ \E pair \in ComputedPairs(NextMapDay) :
          sun_map' = SunMapWith(NextMapDay, SunMapEntry(pair, FALSE))
    /\ UNCHANGED <<script, dates_sorted, start_dt, end_dt, i, spans, m_days, m_raised,
                   sunVars, tableVars, fofVars, pathVars, calVars, filterVars, enrichVars>>

\* one iteration of the loop over unique_days: sunrise_sunset_local raises
SunMapRaises ==
    /\ MapFilling
    /\ \E pair \in ComputedPairs(NextMapDay) :
          sun_map' = SunMapWith(NextMapDay, SunMapEntry(pair, TRUE))
    /\ m_raised' = m_raised \cup {NextMapDay}
    /\ UNCHANGED <<script, dates_sorted, start_dt, end_dt, i, spans, m_days,
                   sunVars, tableVars, fofVars, pathVars, calVars, filterVars, enrichVars>>

\* Combined.py 365 / fig10 168: the map is complete, its dates are sorted
SunMapSorted ==
    /\ script \in {"Combined", "fig10"}
    /\ dates_sorted = << >>
    /\ Cardinality(DOMAIN sun_map) = Len(m_days)
    /\ dates_sorted' = SortedSeq(DOMAIN sun_map)
    /\ UNCHANGED <<script, sun_map, start_dt, end_dt, i, spans, mapVars,
                   sunVars, tableVars, fofVars, pathVars, calVars, filterVars, enrichVars>>

\* the script has read its data: the unique days and the plot window
InitMap ==
    /\ script \in {"Combined", "fig10"}
    /\ \E S \in (SUBSET Days) \ {{}} :
          /\ m_days \in {SortedSeq(S),
                         [n \in 1..Cardinality(S) |-> SortedSeq(S)[Cardinality(S) + 1 - n]]}
          /\ \E hmin \in DataHours, hmax \in DataHours :
                /\ start_dt = Midnight(CHOOSE x \in S : \A y \in S : x <= y) + hmin - MarginHours
                /\ end_dt = Midnight(CHOOSE x \in S : \A y \in S : x >= y) + hmax + MarginHours
                /\ start_dt + MarginHours <= end_dt - MarginHours
    /\ m_raised = {}
    /\ sun_map = << >> /\ dates_sorted = << >>
    /\ i = 1 /\ spans = << >>
    /\ SunIdle /\ TableIdle /\ FofIdle /\ PathIdle /\ CalIdle /\ FilterIdle /\ EnrichIdle

NextMap == SunMapCompute \/ SunMapRaises \/ SunMapSorted \/ OptionalPlotShade \/ Fig10Shade

MapSpec == InitMap /\ [][NextMap]_vars

MaxFileRows == 2       \* a file has at most MaxFileRows rows

USE_BEST_QUALITY_ONLY == TRUE

\* pd.to_datetime("y-mo-d h:mi:s")
At(y, mo, d, h, mi, s) == [ord |-> Ordinal(y, mo, d), sec |-> h * 3600 + mi * 60 + s]

\* the files of FILES, each as the sequence of its path components
FILES ==
    << <<"output", "final7.1_new.xlsx">>,
       <<"output", "final_10.130.xlsx">>,
       <<"output", "5_GHZ_Standardized_data_preview__first_200_rows_.csv">> >>

\* start and end of each entry of BEST_QUALITY_PERIODS
BEST_QUALITY_PERIODS ==
    [file_key \in {"final_7.1.xlsx", "final_10.130.xlsx",
                   "5_GHZ_Standardized_data_preview__first_200_rows_.csv"} |->
        IF file_key = "final_7.1.xlsx"
        THEN [start |-> At(2023, 4, 18, 2, 16, 0), end |-> At(2023, 4, 18, 11, 25, 0)]
        ELSE IF file_key = "final_10.130.xlsx"
        THEN [start |-> At(2023, 4, 20, 2, 25, 0), end |-> At(2023, 4, 20, 17, 35, 45)]
        ELSE [start |-> At(2023, 4, 18, 1, 25, 0), end |-> At(2023, 4, 19, 5, 41, 0)]]

\* Path(filename).name
PathName(filename) == filename[Len(filename)]

\* the DateTime values a row can have: the ends of every period and the
\* seconds just outside them
RowTimes ==
    UNION {{DtAdd(BEST_QUALITY_PERIODS[key].start, -1), BEST_QUALITY_PERIODS[key].start,
            BEST_QUALITY_PERIODS[key].end, DtAdd(BEST_QUALITY_PERIODS[key].end, 1)} :
           key \in DOMAIN BEST_QUALITY_PERIODS}

\* (df['DateTime'] >= start_time) & (df['DateTime'] <= end_time)
InPeriod(t, start_time, end_time) == ~DtLess(t, start_time) /\ ~DtLess(end_time, t)

\* the DateTime column exists or can be made of Date and Time
HasDateTime(columns) == "DateTime" \in columns \/ {"Date", "Time"} \subseteq columns

\* filter_to_best_quality_period(df, filename): the rows returned
filter_to_best_quality_period(rows, columns, filename) ==
    IF ~USE_BEST_QUALITY_ONLY THEN rows
    ELSE LET file_key == PathName(filename)
         IN  IF file_key \notin DOMAIN BEST_QUALITY_PERIODS THEN rows
             ELSE IF ~HasDateTime(columns) THEN rows
             ELSE LET period_info == BEST_QUALITY_PERIODS[file_key]
                  IN  SelectSeq(rows, LAMBDA t : InPeriod(t, period_info.start, period_info.end))

\* Combined.py 253: df = filter_to_best_quality_period(df, str(in_path));
\* the DateTime column is added when the period is found and it can be made
FilterCall ==
    /\ q_pc = "start"
    /\ q_out' = filter_to_best_quality_period(q_rows, q_columns, q_file)
    /\ q_columns' = IF /\ USE_BEST_QUALITY_ONLY
                       /\ PathName(q_file) \in DOMAIN BEST_QUALITY_PERIODS
                       /\ HasDateTime(q_columns)
                    THEN q_columns \cup {"DateTime"} ELSE q_columns
    /\ q_pc' = "filtered"
    /\ UNCHANGED <<q_file, q_rows, shadeVars, sunVars, tableVars, fofVars, pathVars, calVars,
                   mapVars, enrichVars>>

\* Combined.py 255-257: nothing is left, the file is skipped
EnrichSkip ==
    /\ q_pc = "filtered"
    /\ q_out = << >>
    /\ q_pc' = "skipped"
    /\ UNCHANGED <<q_file, q_columns, q_rows, q_out, shadeVars, sunVars, tableVars, fofVars,
                   pathVars, calVars, mapVars, enrichVars>>

\* Combined.py 259-284: the rows left are enriched and saved
EnrichKeep ==
    /\ q_pc = "filtered"
    /\ q_out # << >>
    /\ q_pc' = "kept"
    /\ UNCHANGED <<q_file, q_columns, q_rows, q_out, shadeVars, sunVars, tableVars, fofVars,
                   pathVars, calVars, mapVars, enrichVars>>

\* enrich_file has read a file of FILES
InitFilter ==
    /\ q_pc = "start"
    /\ q_file \in {FILES[n] : n \in 1..Len(FILES)}
    /\ q_columns \in {{"Date", "DateTime"}, {"Date", "Time"}, {"Date"}}
    /\ q_rows \in UNION {[1..n -> RowTimes] : n \in 1..MaxFileRows}
    /\ q_out = << >>
    /\ ShadeIdle /\ SunIdle /\ TableIdle /\ FofIdle /\ PathIdle /\ CalIdle
    /\ MapIdle /\ EnrichIdle

NextFilter == FilterCall \/ EnrichSkip \/ EnrichKeep

FilterSpec == InitFilter /\ [][NextFilter]_vars

normalize(ts) == IF notna(dt_date(ts)) THEN [ts EXCEPT !.hour = 0] ELSE ts

\* a value of the Date column of df as a key of the merge
DateKey(ts) ==
    IF notna(dt_date(ts))
    THEN [ord |-> Ordinal(ts.date.year, ts.date.month, ts.date.day), sec |-> ts.hour * 3600]
    ELSE NoDt

\* the rows a left merge makes of one row of df: one for each matching row
\* of the right frame, and one with missing values when none matches
MergedRowsOf(ts, right) ==
    LET found == SelectSeq(right, LAMBDA r : r.Date = DateKey(ts))
    IN  IF found = << >>
        THEN << [Date |-> DateKey(ts), Sunrise |-> NoDt, Sunset |-> NoDt] >>
        ELSE [m \in DOMAIN found |->
                 [Date |-> DateKey(ts), Sunrise |-> found[m].Sunrise, Sunset |-> found[m].Sunset]]

\* pd.merge(df, sun_df, on="Date", how="left"): the rows of df in their order
RECURSIVE LeftMerge(_, _)
LeftMerge(left, right) ==
    IF left = << >> THEN << >>
    ELSE MergedRowsOf(Head(left), right) \o LeftMerge(Tail(left), right)

\* Combined.py 250: df = ensure_date_column(df)
EnsureDateColumn ==
    /\ t_pc = "read"
    /\ t_dates' = [n \in DOMAIN t_dates |-> normalize(t_dates[n])]
    /\ t_pc' = "dated"
    /\ UNCHANGED <<t_keys, t_recs, shadeVars, sunVars, fofVars, pathVars, calVars, moreVars>>

\* Combined.py 255-257: no row is left, enrich_file returns None
EnrichReturnsNone ==
    /\ t_pc = "dated"
    /\ t_dates = << >>
    /\ t_pc' = "none"
    /\ UNCHANGED <<t_dates, t_keys, t_recs, shadeVars, sunVars, fofVars, pathVars, calVars,
                   moreVars>>

\* Combined.py 259: compute_sun_table(df["Date"], lat, lon, tz) is entered
EnrichSunTable ==
    /\ t_pc = "dated"
    /\ t_dates # << >>
    /\ t_pc' = "start"
    /\ UNCHANGED <<t_dates, t_keys, t_recs, shadeVars, sunVars, fofVars, pathVars, calVars,
                   moreVars>>

\* Combined.py 260-266: the sun table has a Date column, the merge is made
EnrichMerge ==
    /\ t_pc = "done"
    /\ t_recs # << >>
    /\ e_merged' = LeftMerge(t_dates, t_recs)
    /\ t_pc' = "merged"
    /\ UNCHANGED <<t_dates, t_keys, t_recs, shadeVars, sunVars, fofVars, pathVars, calVars,
                   mapVars, filterVars>>

\* Combined.py 260: the sun table is pd.DataFrame([]), a frame without
\* columns, and pd.merge raises KeyError for on="Date"
EnrichMergeRaises ==
    /\ t_pc = "done"
    /\ t_recs = << >>
    /\ t_pc' = "error"
    /\ UNCHANGED <<t_dates, t_keys, t_recs, shadeVars, sunVars, fofVars, pathVars, calVars,
                   moreVars>>

\* enrich_file has read and filtered a file
InitEnrich ==
    /\ t_pc = "read"
    /\ t_dates \in Columns(MaxRows)
    /\ t_keys = << >> /\ t_recs = << >>
    /\ ShadeIdle /\ SunIdle /\ FofIdle /\ PathIdle /\ CalIdle /\ MoreIdle

NextEnrich ==
    \/ EnsureDateColumn \/ EnrichReturnsNone \/ EnrichSunTable
    \/ TableStart \/ TableAppend \/ TableReturn
    \/ EnrichMerge \/ EnrichMergeRaises

EnrichSpec == InitEnrich /\ [][NextEnrich]_vars

\* C25: the left merge of enrich_file neither drops nor duplicates rows: for
\* every non-empty filtered frame the merge gives a frame of as many rows,
\* in which a row with a valid Date carries the sunrise and sunset computed
\* for that date and a row with a missing Date carries missing Sunrise and
\* Sunset.
C25_MergeKeepsEveryRow ==
    /\ t_pc # "error"
    /\ t_pc = "merged" =>
          /\ Len(e_merged) = Len(t_dates)
          /\ \A n \in DOMAIN t_dates :
                n \in DOMAIN e_merged =>
                   IF notna(dt_date(t_dates[n]))
                   THEN /\ e_merged[n].Sunrise =
                              sunrise_sunset_local(dt_date(t_dates[n]), TableLat, TableLon, TableTz)[1]
                        /\ e_merged[n].Sunset =
                              sunrise_sunset_local(dt_date(t_dates[n]), TableLat, TableLon, TableTz)[2]
                   ELSE e_merged[n].Sunrise = NoDt /\ e_merged[n].Sunset = NoDt

====
